---------------------------- MODULE Spec2Model ----------------------------
(***************************************************************************)
(* A model of class Poly (src/poly.h, src/poly.cpp): a polynomial kept in  *)
(* a heap array of ints, coeffList, with its recorded length, size.        *)
(*                                                                         *)
(* The client program holds two named Poly objects and executes one        *)
(* statement at a time; each statement is one call of a member or of an    *)
(* overloaded operator.  A binary operator returns a temporary Poly, which *)
(* is destroyed at the end of the statement.                               *)
(*                                                                         *)
(* Memory is modelled explicitly.  A Poly object is a record of its two    *)
(* data members; coeffList is the identity of an array in the heap, and    *)
(* the heap maps each identity to the array's cells.  An array is named    *)
(* after the object whose member function allocated it, so two objects     *)
(* share an array exactly when their coeffList members are equal.          *)
(*                                                                         *)
(* A cell of new int[n] is unwritten until it is assigned.  Reading an     *)
(* unwritten cell, or a cell beyond the end of an array, yields an         *)
(* indeterminate int, each such read a value of its own: junk is the       *)
(* sequence of the values these reads of one call yield, in the order of   *)
(* the reads, and the call has one outcome for every such sequence.  The   *)
(* heap counts the indeterminate reads of a call.                          *)
(***************************************************************************)
EXTENDS Integers, Sequences, FiniteSets, TLC

\* Coefficients range over -CoefMax..CoefMax; an operation whose result
\* would leave the range is not taken.
CoefMax == 1

\* Exponents passed to a constructor or to setCoeff range over
\* -MaxExp..MaxExp.
MaxExp == 2

\* No array is longer than MaxLen cells.
MaxLen == MaxExp + 1

Coefs == (0 - CoefMax)..CoefMax
Exps == (0 - MaxExp)..MaxExp
\* Exponents asked of getCoeff: they reach below 0 and beyond every length.
ReadExps == (0 - MaxLen)..MaxLen

\* The most products operator*= adds into one cell of its new array.
MaxTerms == (MaxLen + 1) \div 2

\* The values an indeterminate int may read as: every int from which a call
\* can still leave a coefficient of the range in the cell it writes, which is
\* the int plus or minus a coefficient in += and -=, and the int plus up to
\* MaxTerms products of two coefficients in *=.
JunkMax == CoefMax + MaxTerms * CoefMax * CoefMax
Junk == (0 - JunkMax)..JunkMax

\* The indeterminate ints one call reads, in the order it reads them: no call
\* reads more of them than an array has cells.
JunkSeqs == [1..MaxLen -> Junk]

\* What an unwritten cell holds: no value a computation of the model yields.
Unwritten == (MaxLen + 2) * (CoefMax + 1) * (CoefMax + 1)

Names == {"a", "b"}
Tmp == "tmp"
Objs == Names \cup {Tmp}
Scratch == "new"
Addrs == Objs \cup {Scratch}
NULL == "NULL"

VARIABLES
    obj,    \* obj[o]: the data members size and coeffList of object o
    heap,   \* heap.cells[x]: the cells of array x, <<>> when not allocated;
            \* heap.oob: the current call used an index outside its array;
            \* heap.indet: the number of indeterminate ints the current call
            \* has read
    ret,    \* the value the last call returned
    last,   \* the call of the current statement and its arguments
    pre     \* obj and heap as they were when the current statement began

vars == <<obj, heap, ret, last, pre>>

Mem == [obj |-> obj, heap |-> heap]

NoObject == [size |-> 0, coeffList |-> NULL]

---------------------------------------------------------------------------
(* Arrays of int *)

\* new int[n]: n unwritten cells.
Alloc(h, at, n) == [h EXCEPT !.cells[at] = [k \in 1..n |-> Unwritten]]

\* delete [] p
Free(h, at) == IF at = NULL THEN h ELSE [h EXCEPT !.cells[at] = <<>>]

\* coeffList = temp: the array allocated through a local pointer becomes the
\* object's own.
Adopt(h, at) == [h EXCEPT !.cells[at] = h.cells[Scratch], !.cells[Scratch] = <<>>]

\* Index i is within array at.
InBounds(h, at, i) == at # NULL /\ i >= 0 /\ i < Len(h.cells[at])

\* Cell i of array at exists and has been written.
Written(h, at, i) == InBounds(h, at, i) /\ h.cells[at][i + 1] # Unwritten

\* The value p[i] reads as: the next indeterminate int when the cell is
\* unwritten or outside the array.
Rd(h, at, i, junk) ==
    IF Written(h, at, i) THEN h.cells[at][i + 1] ELSE junk[h.indet + 1]

\* The heap after a read of p[i].
Load(h, at, i) ==
    [h EXCEPT !.oob = @ \/ ~InBounds(h, at, i),
              !.indet = IF Written(h, at, i) THEN @ ELSE @ + 1]

\* p[i] = v
Wr(h, at, i, v) ==
    IF InBounds(h, at, i)
    THEN [h EXCEPT !.cells[at][i + 1] = v]
    ELSE [h EXCEPT !.oob = TRUE]

\* for (i; i < n; ++i) dst[i] = src[i];
RECURSIVE CopyLoop(_, _, _, _, _, _)
CopyLoop(h, dst, src, i, n, junk) ==
    IF i >= n THEN h
    ELSE CopyLoop(Wr(Load(h, src, i), dst, i, Rd(h, src, i, junk)),
                  dst, src, i + 1, n, junk)

\* for (i; i < n; ++i) dst[i] = 0;
RECURSIVE ZeroLoop(_, _, _, _)
ZeroLoop(h, dst, i, n) ==
    IF i >= n THEN h ELSE ZeroLoop(Wr(h, dst, i, 0), dst, i + 1, n)

\* for (i; i < n; ++i) dst[i] += src[i];   (sign = 1)
\* for (i; i < n; ++i) dst[i] -= src[i];   (sign = -1)
RECURSIVE AccLoop(_, _, _, _, _, _, _)
AccLoop(h, dst, src, i, n, sign, junk) ==
    IF i >= n THEN h
    ELSE LET h1 == Load(h, src, i)
             h2 == Load(h1, dst, i)
         IN  AccLoop(Wr(h2, dst, i,
                        Rd(h1, dst, i, junk) + sign * Rd(h, src, i, junk)),
                     dst, src, i + 1, n, sign, junk)

\* for (i; i < n; ++i) for (j; j < m; ++j) dst[i + j] += lhs[i] * rhs[j];
RECURSIVE MulLoop(_, _, _, _, _, _, _, _, _)
MulLoop(h, dst, lhs, rhs, i, j, n, m, junk) ==
    IF i >= n THEN h
    ELSE IF j >= m THEN MulLoop(h, dst, lhs, rhs, i + 1, 0, n, m, junk)
    ELSE LET h1 == Load(h, lhs, i)
             h2 == Load(h1, rhs, j)
             h3 == Load(h2, dst, i + j)
         IN  MulLoop(Wr(h3, dst, i + j,
                        Rd(h2, dst, i + j, junk)
                            + Rd(h, lhs, i, junk) * Rd(h1, rhs, j, junk)),
                     dst, lhs, rhs, i, j + 1, n, m, junk)

---------------------------------------------------------------------------
(* Constructors and destructor *)

\* Poly::Poly()
Poly0(S, this) ==
    LET h1 == Alloc(S.heap, this, 1)
        h2 == Wr(h1, this, 0, 0)
    IN  [obj |-> [S.obj EXCEPT ![this] = [size |-> 1, coeffList |-> this]],
         heap |-> h2]

\* Poly::Poly(int coeff)
Poly1(S, this, coeff) ==
    LET h1 == Alloc(S.heap, this, 1)
        h2 == Wr(h1, this, 0, coeff)
    IN  [obj |-> [S.obj EXCEPT ![this] = [size |-> 1, coeffList |-> this]],
         heap |-> h2]

\* Poly(int, int) as it would be with size = exp + 1 for an exp of either
\* sign.
Poly2SignedExp(S, this, coeff, exp) ==
    LET size == exp + 1
        h1 == Alloc(S.heap, this, size)
        h2 == ZeroLoop(h1, this, 0, size - 1)
        h3 == Wr(h2, this, size - 1, coeff)
    IN  [obj |-> [S.obj EXCEPT ![this] = [size |-> size, coeffList |-> this]],
         heap |-> h3]

\* Poly::Poly(int coeff, int exp)
Poly2(S, this, coeff, exp) ==
    LET size == IF exp < 0 THEN exp * (0 - 1) + 1 ELSE exp + 1
        h1 == Alloc(S.heap, this, size)
        h2 == ZeroLoop(h1, this, 0, size - 1)
        h3 == Wr(h2, this, size - 1, coeff)
    IN  [obj |-> [S.obj EXCEPT ![this] = [size |-> size, coeffList |-> this]],
         heap |-> h3]

\* Poly::Poly(const Poly& orig)
PolyCopy(S, this, orig, junk) ==
    LET size == S.obj[orig].size
        h1 == Alloc(S.heap, this, size)
        h2 == CopyLoop(h1, this, S.obj[orig].coeffList, 0, size, junk)
    IN  [obj |-> [S.obj EXCEPT ![this] = [size |-> size, coeffList |-> this]],
         heap |-> h2]

\* Poly::~Poly()
Destructor(S, this) ==
    LET h1 == ZeroLoop(S.heap, S.obj[this].coeffList, 0, S.obj[this].size)
        h2 == Free(h1, S.obj[this].coeffList)
    IN  [obj |-> [S.obj EXCEPT ![this] = NoObject], heap |-> h2]

---------------------------------------------------------------------------
(* Accessor and mutator.  A const member that returns a value yields the   *)
(* value, ret, and the heap, in which only oob and indet can have changed. *)

\* getCoeff as it would be with exp > size for exp >= size.
getCoeffOffByOne(S, this, exp, junk) ==
    IF exp > S.obj[this].size \/ exp < 0
    THEN [ret |-> 0, heap |-> S.heap]
    ELSE [ret |-> Rd(S.heap, S.obj[this].coeffList, exp, junk),
          heap |-> Load(S.heap, S.obj[this].coeffList, exp)]

\* int Poly::getCoeff(int exp) const
getCoeff(S, this, exp, junk) ==
    IF exp >= S.obj[this].size \/ exp < 0
    THEN [ret |-> 0, heap |-> S.heap]
    ELSE [ret |-> Rd(S.heap, S.obj[this].coeffList, exp, junk),
          heap |-> Load(S.heap, S.obj[this].coeffList, exp)]

\* setCoeff as it would be without the loop that zeroes the new cells.
setCoeffNoZeroFill(S, this, coeff, exp, junk) ==
    LET index == IF exp < 0 THEN exp * (0 - 1) ELSE exp
        size == S.obj[this].size
    IN  IF index >= size
        THEN LET h1 == Alloc(S.heap, Scratch, index + 1)
                 h2 == CopyLoop(h1, Scratch, S.obj[this].coeffList, 0, size, junk)
                 h3 == Free(h2, S.obj[this].coeffList)
                 h4 == Adopt(h3, this)
                 h6 == Wr(h4, this, index, coeff)
             IN  [obj |-> [S.obj EXCEPT ![this] =
                              [size |-> index + 1, coeffList |-> this]],
                  heap |-> h6]
        ELSE [S EXCEPT !.heap = Wr(S.heap, S.obj[this].coeffList, index, coeff)]

\* void Poly::setCoeff(int coeff, int exp)
setCoeff(S, this, coeff, exp, junk) ==
    LET index == IF exp < 0 THEN exp * (0 - 1) ELSE exp
        size == S.obj[this].size
    IN  IF index >= size
        THEN LET h1 == Alloc(S.heap, Scratch, index + 1)
                 h2 == CopyLoop(h1, Scratch, S.obj[this].coeffList, 0, size, junk)
                 h3 == Free(h2, S.obj[this].coeffList)
                 h4 == Adopt(h3, this)
                 h5 == ZeroLoop(h4, this, size, index)
                 h6 == Wr(h5, this, index, coeff)
             IN  [obj |-> [S.obj EXCEPT ![this] =
                              [size |-> index + 1, coeffList |-> this]],
                  heap |-> h6]
        ELSE [S EXCEPT !.heap = Wr(S.heap, S.obj[this].coeffList, index, coeff)]

---------------------------------------------------------------------------
(* Arithmetic.  The local Poly a binary operator builds and returns by     *)
(* value is the temporary Tmp of the calling statement.                    *)

\* operator+ as it would be if it always copied *this, whichever is larger.
operatorPlusCopiesThis(S, this, rhs, junk) ==
    LET S1 == PolyCopy(S, Tmp, this, junk)
    IN  [S1 EXCEPT !.heap = AccLoop(S1.heap, S1.obj[Tmp].coeffList,
                                    S1.obj[rhs].coeffList, 0,
                                    S1.obj[rhs].size, 1, junk)]

\* Poly Poly::operator+(const Poly& rhs) const
operatorPlus(S, this, rhs, junk) ==
    IF S.obj[this].size > S.obj[rhs].size
    THEN LET S1 == PolyCopy(S, Tmp, this, junk)
         IN  [S1 EXCEPT !.heap = AccLoop(S1.heap, S1.obj[Tmp].coeffList,
                                         S1.obj[rhs].coeffList, 0,
                                         S1.obj[rhs].size, 1, junk)]
    ELSE LET S1 == PolyCopy(S, Tmp, rhs, junk)
         IN  [S1 EXCEPT !.heap = AccLoop(S1.heap, S1.obj[Tmp].coeffList,
                                         S1.obj[this].coeffList, 0,
                                         S1.obj[this].size, 1, junk)]

\* operator- as it would be without the growth of diff to rhs.size.
operatorMinusNoGrowth(S, this, rhs, junk) ==
    LET S1 == PolyCopy(S, Tmp, this, junk)
    IN  [S1 EXCEPT !.heap = AccLoop(S1.heap, S1.obj[Tmp].coeffList,
                                    S1.obj[rhs].coeffList, 0,
                                    S1.obj[rhs].size, 0 - 1, junk)]

\* Poly Poly::operator-(const Poly& rhs) const
operatorMinus(S, this, rhs, junk) ==
    LET S1 == PolyCopy(S, Tmp, this, junk)
        S2 == IF S1.obj[this].size < S1.obj[rhs].size
              THEN setCoeff(S1, Tmp, 0, S1.obj[rhs].size - 1, junk)
              ELSE S1
    IN  [S2 EXCEPT !.heap = AccLoop(S2.heap, S2.obj[Tmp].coeffList,
                                    S2.obj[rhs].coeffList, 0,
                                    S2.obj[rhs].size, 0 - 1, junk)]

\* operator* as it would be with the inner loop starting at j = 1.
operatorTimesSkipsFirst(S, this, rhs, junk) ==
    LET S1 == Poly0(S, Tmp)
        S2 == setCoeff(S1, Tmp, 0, S1.obj[this].size + S1.obj[rhs].size - 2, junk)
    IN  [S2 EXCEPT !.heap = MulLoop(S2.heap, S2.obj[Tmp].coeffList,
                                    S2.obj[this].coeffList, S2.obj[rhs].coeffList,
                                    0, 1, S2.obj[this].size, S2.obj[rhs].size, junk)]

\* Poly Poly::operator*(const Poly& rhs) const
operatorTimes(S, this, rhs, junk) ==
    LET S1 == Poly0(S, Tmp)
        S2 == setCoeff(S1, Tmp, 0, S1.obj[this].size + S1.obj[rhs].size - 2, junk)
    IN  [S2 EXCEPT !.heap = MulLoop(S2.heap, S2.obj[Tmp].coeffList,
                                    S2.obj[this].coeffList, S2.obj[rhs].coeffList,
                                    0, 0, S2.obj[this].size, S2.obj[rhs].size, junk)]

\* operator= as it would be if it copied the pointer instead of the cells.
operatorAssignShallow(S, this, rhs, junk) ==
    IF this # rhs
    THEN LET h1 == Free(S.heap, S.obj[this].coeffList)
         IN  [obj |-> [S.obj EXCEPT ![this] = S.obj[rhs]], heap |-> h1]
    ELSE S

\* Poly& Poly::operator=(const Poly& rhs)
operatorAssign(S, this, rhs, junk) ==
    IF this # rhs
    THEN LET size == S.obj[rhs].size
             h1 == Free(S.heap, S.obj[this].coeffList)
             h2 == Alloc(h1, this, size)
             h3 == CopyLoop(h2, this, S.obj[rhs].coeffList, 0, size, junk)
         IN  [obj |-> [S.obj EXCEPT ![this] = [size |-> size, coeffList |-> this]],
              heap |-> h3]
    ELSE S

\* Poly& Poly::operator+=(const Poly& rhs)
operatorPlusAssign(S, this, rhs, junk) ==
    LET S1 == IF S.obj[this].size < S.obj[rhs].size
              THEN setCoeff(S, this, 0, S.obj[rhs].size - 1, junk)
              ELSE S
    IN  [S1 EXCEPT !.heap = AccLoop(S1.heap, S1.obj[this].coeffList,
                                    S1.obj[rhs].coeffList, 0,
                                    S1.obj[this].size, 1, junk)]

\* Poly& Poly::operator-=(const Poly& rhs)
operatorMinusAssign(S, this, rhs, junk) ==
    LET S1 == IF S.obj[this].size < S.obj[rhs].size
              THEN setCoeff(S, this, 0, S.obj[rhs].size - 1, junk)
              ELSE S
    IN  [S1 EXCEPT !.heap = AccLoop(S1.heap, S1.obj[this].coeffList,
                                    S1.obj[rhs].coeffList, 0,
                                    S1.obj[this].size, 0 - 1, junk)]

\* Poly& Poly::operator*=(const Poly& rhs): size is not assigned.
operatorTimesAssign(S, this, rhs, junk) ==
    LET h1 == Alloc(S.heap, Scratch, S.obj[this].size + S.obj[rhs].size - 1)
        h2 == MulLoop(h1, Scratch, S.obj[this].coeffList, S.obj[rhs].coeffList,
                      0, 0, S.obj[this].size, S.obj[rhs].size, junk)
        h3 == Free(h2, S.obj[this].coeffList)
        h4 == Adopt(h3, this)
    IN  [obj |-> [S.obj EXCEPT ![this].coeffList = this], heap |-> h4]

---------------------------------------------------------------------------
(* Equality *)

\* bool Poly::compare(const Poly& smaller, const Poly& larger) const
\* The two while loops share the index i: the first runs while
\* i < smaller.size, the second from there while i < larger.size.
RECURSIVE compareFrom(_, _, _, _, _)
compareFrom(S, smaller, larger, i, junk) ==
    IF i < S.obj[smaller].size
    THEN LET h1 == Load(S.heap, S.obj[smaller].coeffList, i)
             h == Load(h1, S.obj[larger].coeffList, i)
         IN  IF Rd(S.heap, S.obj[smaller].coeffList, i, junk)
                # Rd(h1, S.obj[larger].coeffList, i, junk)
             THEN [ret |-> FALSE, heap |-> h]
             ELSE compareFrom([S EXCEPT !.heap = h], smaller, larger, i + 1, junk)
    ELSE IF i < S.obj[larger].size
    THEN LET h == Load(S.heap, S.obj[larger].coeffList, i)
         IN  IF Rd(S.heap, S.obj[larger].coeffList, i, junk) # 0
             THEN [ret |-> FALSE, heap |-> h]
             ELSE compareFrom([S EXCEPT !.heap = h], smaller, larger, i + 1, junk)
    ELSE [ret |-> TRUE, heap |-> S.heap]

\* compare as it would be without the loop over the rest of larger.
RECURSIVE compareNoTailFrom(_, _, _, _, _)
compareNoTailFrom(S, smaller, larger, i, junk) ==
    IF i < S.obj[smaller].size
    THEN LET h1 == Load(S.heap, S.obj[smaller].coeffList, i)
             h == Load(h1, S.obj[larger].coeffList, i)
         IN  IF Rd(S.heap, S.obj[smaller].coeffList, i, junk)
                # Rd(h1, S.obj[larger].coeffList, i, junk)
             THEN [ret |-> FALSE, heap |-> h]
             ELSE compareNoTailFrom([S EXCEPT !.heap = h], smaller, larger, i + 1, junk)
    ELSE [ret |-> TRUE, heap |-> S.heap]

compareNoTail(S, smaller, larger, junk) ==
    compareNoTailFrom(S, smaller, larger, 0, junk)

compare(S, smaller, larger, junk) == compareFrom(S, smaller, larger, 0, junk)

\* bool Poly::operator==(const Poly& rhs) const
operatorEq(S, this, rhs, junk) ==
    IF S.obj[this].size > S.obj[rhs].size
    THEN compare(S, rhs, this, junk)
    ELSE compare(S, this, rhs, junk)

\* bool Poly::operator!=(const Poly& rhs) const
operatorNe(S, this, rhs, junk) ==
    LET eq == operatorEq(S, this, rhs, junk)
    IN  [ret |-> ~eq.ret, heap |-> eq.heap]

---------------------------------------------------------------------------
(* Stream input.  An istream is the sequence of the integer tokens it still *)
(* holds.                                                                  *)

\* input >> x for an int x: the next token is taken; from an exhausted stream
\* nothing is taken and x keeps its value (for the locals coeff and exp of
\* operator>>, which are not initialised, the values junk[1] and junk[2]).
Extract(input, x) ==
    IF input = <<>>
    THEN [val |-> x, input |-> input]
    ELSE [val |-> Head(input), input |-> Tail(input)]

\* while(coeff != 0 || exp != 0) { target.setCoeff(coeff, exp);
\*                                 input >> coeff >> exp; }
RECURSIVE ParseLoop(_, _, _, _, _, _)
ParseLoop(S, target, coeff, exp, input, junk) ==
    IF coeff # 0 \/ exp # 0
    THEN LET S1 == setCoeff(S, target, coeff, exp, junk)
             c == Extract(input, coeff)
             e == Extract(c.input, exp)
         IN  ParseLoop(S1, target, c.val, e.val, e.input, junk)
    ELSE [mem |-> S, input |-> input]

\* operator>> as it would be without the loop that zeroes the target.
operatorInNoReset(S, target, input, junk) ==
    LET c == Extract(input, junk[1])
        e == Extract(c.input, junk[2])
    IN  ParseLoop(S, target, c.val, e.val, e.input, junk)

\* istream& operator>>(istream& input, Poly& target)
operatorIn(S, target, input, junk) ==
    LET c == Extract(input, junk[1])
        e == Extract(c.input, junk[2])
        h == ZeroLoop(S.heap, S.obj[target].coeffList, 0, S.obj[target].size)
    IN  ParseLoop([S EXCEPT !.heap = h], target, c.val, e.val, e.input, junk)

---------------------------------------------------------------------------
(* Stream output.  An ostream is the text written to it so far, a sequence  *)
(* of characters.  cout is the global standard output; an ostream passed to *)
(* operator<< is cout or another stream.                                   *)

Cout == "cout"
Sinks == {Cout, "file"}

\* sink << text
Put(sinks, sink, text) == [sinks EXCEPT ![sink] = @ \o text]

Digits == <<"0", "1", "2", "3", "4", "5", "6", "7", "8", "9">>

\* What sink << n writes for an int n: its decimal numeral, with a leading
\* - when n is negative.
RECURSIVE Numeral(_)
Numeral(n) ==
    IF n < 0 THEN <<"-">> \o Numeral(0 - n)
    ELSE IF n < Len(Digits) THEN <<Digits[n + 1]>>
    ELSE Numeral(n \div Len(Digits)) \o <<Digits[(n % Len(Digits)) + 1]>>

\* The term as it would be written without the + of a positive coefficient.
TermNoPlus(coeff, i) ==
    <<" ">> \o Numeral(coeff)
        \o (IF i > 0 THEN <<"x">> ELSE <<>>)
        \o (IF i > 1 THEN <<"^">> \o Numeral(i) ELSE <<>>)

\* What the body of the loop of operator<< writes for the non-zero
\* coefficient coeff = source.coeffList[i].
Term(coeff, i) ==
    <<" ">> \o (IF coeff > 0 THEN <<"+">> ELSE <<>>) \o Numeral(coeff)
        \o (IF i > 0 THEN <<"x">> ELSE <<>>)
        \o (IF i > 1 THEN <<"^">> \o Numeral(i) ELSE <<>>)

\* for (int i = source.size - 1; i >= 0; --i) ...   Every character goes to
\* cout.  st holds the heap, the streams and the local nonzero.
RECURSIVE OutLoop(_, _, _, _)
OutLoop(st, list, i, junk) ==
    IF i < 0 THEN st
    ELSE LET coeff == Rd(st.heap, list, i, junk)
             h == Load(st.heap, list, i)
         IN  IF coeff # 0
             THEN OutLoop([heap |-> h, nonzero |-> TRUE,
                           sinks |-> Put(st.sinks, Cout, Term(coeff, i))],
                          list, i - 1, junk)
             ELSE OutLoop([st EXCEPT !.heap = h], list, i - 1, junk)

\* ostream& operator<<(ostream& output, const Poly& source)
operatorOut(S, sinks, output, source, junk) ==
    LET st == OutLoop([heap |-> S.heap, nonzero |-> FALSE, sinks |-> sinks],
                      S.obj[source].coeffList, S.obj[source].size - 1, junk)
    IN  [heap |-> st.heap,
         sinks |-> IF ~st.nonzero THEN Put(st.sinks, Cout, <<" ", "0">>)
                   ELSE st.sinks]

---------------------------------------------------------------------------
(* The client program *)

\* A stream holds at most MaxPairs pairs before its terminating pair 0 0.
MaxPairs == 1

\* The well-formed streams: pairs (coeff, exp) other than (0, 0), then 0 0.
RECURSIVE StreamsOf(_)
StreamsOf(n) ==
    IF n = 0 THEN {<<0, 0>>}
    ELSE StreamsOf(n - 1)
            \cup ({<<c, e>> \o s : c \in Coefs, e \in Exps, s \in StreamsOf(n - 1)}
                      \ {<<0, 0>> \o s : s \in StreamsOf(n - 1)})

Streams == StreamsOf(MaxPairs)

NoArg == "-"
NoSinks == [s \in Sinks |-> <<>>]
NoCall ==
    [op |-> "none", this |-> NoArg, rhs |-> NoArg, coeff |-> 0, exp |-> 0,
     input |-> <<>>, output |-> NoArg, sinks |-> NoSinks]
NoRet == [int |-> 0, bool |-> FALSE, input |-> <<>>, sinks |-> NoSinks]

\* What the streams hold before a statement writes to them: nothing, or an
\* earlier text.
Texts == {<<>>, <<" ", "0">>}

\* The model's bounds: every written cell holds a coefficient of the range
\* and no array is longer than MaxLen.
Bounded(S) ==
    \A x \in Addrs :
        /\ Len(S.heap.cells[x]) <= MaxLen
        /\ \A k \in 1..Len(S.heap.cells[x]) :
               S.heap.cells[x][k] \in Coefs \cup {Unwritten}

Start ==
    [obj |-> [o \in Objs |-> NoObject],
     heap |-> [cells |-> [x \in Addrs |-> <<>>], oob |-> FALSE, indet |-> 0]]

\* The declarations  Poly o;  Poly o(coeff);  Poly o(coeff, exp);
Declared(S, o) ==
    {Poly0(S, o)}
        \cup {Poly1(S, o, c) : c \in Coefs}
        \cup {Poly2(S, o, c, e) : c \in Coefs, e \in Exps}

Init ==
    \E Sa \in Declared(Start, "a") :
        \E Sb \in Declared(Sa, "b") :
            /\ obj = Sb.obj
            /\ heap = Sb.heap
            /\ ret = NoRet
            /\ last = NoCall
            /\ pre = Sb

\* Between two statements: no call is in progress and no temporary lives.
Idle == last.op = "none"

\* The value a call is first evaluated with.
Probe == CHOOSE junk \in JunkSeqs : TRUE

\* The places of the cells of the heap.
Cells == {<<x, k>> : x \in Addrs, k \in 1..MaxLen}

\* The cells of heap h that hold a value outside the range of coefficients.
OutOfRange(h) ==
    {c \in Cells :
        /\ c[2] <= Len(h.cells[c[1]])
        /\ h.cells[c[1]][c[2]] \notin Coefs \cup {Unwritten}}

\* The evaluations that vary one indeterminate int of a call: u = <<k, v>>
\* gives the k-th such int the value v and the others their value in Probe.
Units(h) == {<<k, v>> : k \in 1..h.indet, v \in Junk}

Vary(u) == [Probe EXCEPT ![u[1]] = u[2]]

\* The values of the k-th indeterminate int of a call that do not, by
\* themselves, take a cell out of the range: with any other value the cell
\* that the int reaches is left outside the range, and the call is not taken
\* (Bounded).  runs pairs every u of Units with the cells that the call
\* leaves outside the range when its indeterminate reads yield Vary(u).
Admissible(runs, k) ==
    LET out == {<<r[1][2], r[2]>> : r \in {r \in runs : r[1][1] = k}}
        always == {c \in Cells : \A o \in out : c \in o[2]}
    IN  {o[1] : o \in {o \in out : o[2] \subseteq always}}

\* The sequences to evaluate a call with, given the heap h its evaluation
\* with Probe left: the call read h.indet indeterminate ints, so every choice
\* of that many admissible values; the values beyond them are not read.
Values(h, runs) ==
    IF h.indet = 0 THEN {Probe}
    ELSE LET adm == {<<k, Admissible(runs, k)>> : k \in 1..h.indet}
         IN  {junk \in JunkSeqs :
                 /\ \A a \in adm : junk[a[1]] \in a[2]
                 /\ \A k \in (h.indet + 1)..MaxLen : junk[k] = Probe[k]}

\* A call that changes memory to S2 and returns r.
Gets(S2, r, call) ==
    /\ Bounded(S2)
    /\ obj' = S2.obj
    /\ heap' = S2.heap
    /\ ret' = r
    /\ last' = call
    /\ pre' = Mem

\* A call that changes memory to S2.
Does(S2, call) == Gets(S2, NoRet, call)

\* Poly(p);
CallCopy(p) ==
    /\ Idle
    /\ LET S0 == PolyCopy(Mem, Tmp, p, Probe)
           runs == {<<u, OutOfRange(PolyCopy(Mem, Tmp, p, Vary(u)).heap)>> :
                       u \in Units(S0.heap)}
       IN  \E junk \in Values(S0.heap, runs) :
               Does(IF junk = Probe THEN S0 ELSE PolyCopy(Mem, Tmp, p, junk),
                    [NoCall EXCEPT !.op = "copy", !.rhs = p])

\* p.setCoeff(c, e);
CallSetCoeff(p, c, e) ==
    /\ Idle
    /\ LET S0 == setCoeff(Mem, p, c, e, Probe)
           runs == {<<u, OutOfRange(setCoeff(Mem, p, c, e, Vary(u)).heap)>> :
                       u \in Units(S0.heap)}
       IN  \E junk \in Values(S0.heap, runs) :
               Does(IF junk = Probe THEN S0 ELSE setCoeff(Mem, p, c, e, junk),
                    [NoCall EXCEPT !.op = "setCoeff", !.this = p, !.coeff = c,
                                   !.exp = e])

\* p.getCoeff(e);
CallGetCoeff(p, e) ==
    /\ Idle
    /\ LET r0 == getCoeff(Mem, p, e, Probe)
           runs == {<<u, OutOfRange(getCoeff(Mem, p, e, Vary(u)).heap)>> :
                       u \in Units(r0.heap)}
       IN  \E junk \in Values(r0.heap, runs) :
               LET r == IF junk = Probe THEN r0 ELSE getCoeff(Mem, p, e, junk)
               IN  Gets([Mem EXCEPT !.heap = r.heap], [NoRet EXCEPT !.int = r.ret],
                        [NoCall EXCEPT !.op = "getCoeff", !.this = p, !.exp = e])

\* p + q;
CallPlus(p, q) ==
    /\ Idle
    /\ LET S0 == operatorPlus(Mem, p, q, Probe)
           runs == {<<u, OutOfRange(operatorPlus(Mem, p, q, Vary(u)).heap)>> :
                       u \in Units(S0.heap)}
       IN  \E junk \in Values(S0.heap, runs) :
               Does(IF junk = Probe THEN S0 ELSE operatorPlus(Mem, p, q, junk),
                    [NoCall EXCEPT !.op = "+", !.this = p, !.rhs = q])

\* p - q;
CallMinus(p, q) ==
    /\ Idle
    /\ LET S0 == operatorMinus(Mem, p, q, Probe)
           runs == {<<u, OutOfRange(operatorMinus(Mem, p, q, Vary(u)).heap)>> :
                       u \in Units(S0.heap)}
       IN  \E junk \in Values(S0.heap, runs) :
               Does(IF junk = Probe THEN S0 ELSE operatorMinus(Mem, p, q, junk),
                    [NoCall EXCEPT !.op = "-", !.this = p, !.rhs = q])

\* p * q;
CallTimes(p, q) ==
    /\ Idle
    /\ obj[p].size + obj[q].size - 1 <= MaxLen
    /\ LET S0 == operatorTimes(Mem, p, q, Probe)
           runs == {<<u, OutOfRange(operatorTimes(Mem, p, q, Vary(u)).heap)>> :
                       u \in Units(S0.heap)}
       IN  \E junk \in Values(S0.heap, runs) :
               Does(IF junk = Probe THEN S0 ELSE operatorTimes(Mem, p, q, junk),
                    [NoCall EXCEPT !.op = "*", !.this = p, !.rhs = q])

\* p = q;
CallAssign(p, q) ==
    /\ Idle
    /\ LET S0 == operatorAssign(Mem, p, q, Probe)
           runs == {<<u, OutOfRange(operatorAssign(Mem, p, q, Vary(u)).heap)>> :
                       u \in Units(S0.heap)}
       IN  \E junk \in Values(S0.heap, runs) :
               Does(IF junk = Probe THEN S0 ELSE operatorAssign(Mem, p, q, junk),
                    [NoCall EXCEPT !.op = "=", !.this = p, !.rhs = q])

\* p += q;
CallPlusAssign(p, q) ==
    /\ Idle
    /\ LET S0 == operatorPlusAssign(Mem, p, q, Probe)
           runs == {<<u, OutOfRange(operatorPlusAssign(Mem, p, q, Vary(u)).heap)>> :
                       u \in Units(S0.heap)}
       IN  \E junk \in Values(S0.heap, runs) :
               Does(IF junk = Probe THEN S0 ELSE operatorPlusAssign(Mem, p, q, junk),
                    [NoCall EXCEPT !.op = "+=", !.this = p, !.rhs = q])

\* p -= q;
CallMinusAssign(p, q) ==
    /\ Idle
    /\ LET S0 == operatorMinusAssign(Mem, p, q, Probe)
           runs == {<<u, OutOfRange(operatorMinusAssign(Mem, p, q, Vary(u)).heap)>> :
                       u \in Units(S0.heap)}
       IN  \E junk \in Values(S0.heap, runs) :
               Does(IF junk = Probe THEN S0 ELSE operatorMinusAssign(Mem, p, q, junk),
                    [NoCall EXCEPT !.op = "-=", !.this = p, !.rhs = q])

\* p *= q;
CallTimesAssign(p, q) ==
    /\ Idle
    /\ obj[p].size + obj[q].size - 1 <= MaxLen
    /\ LET S0 == operatorTimesAssign(Mem, p, q, Probe)
           runs == {<<u, OutOfRange(operatorTimesAssign(Mem, p, q, Vary(u)).heap)>> :
                       u \in Units(S0.heap)}
       IN  \E junk \in Values(S0.heap, runs) :
               Does(IF junk = Probe THEN S0
                    ELSE operatorTimesAssign(Mem, p, q, junk),
                    [NoCall EXCEPT !.op = "*=", !.this = p, !.rhs = q])

\* p == q;
CallEq(p, q) ==
    /\ Idle
    /\ LET r0 == operatorEq(Mem, p, q, Probe)
           runs == {<<u, OutOfRange(operatorEq(Mem, p, q, Vary(u)).heap)>> :
                       u \in Units(r0.heap)}
       IN  \E junk \in Values(r0.heap, runs) :
               LET r == IF junk = Probe THEN r0 ELSE operatorEq(Mem, p, q, junk)
               IN  Gets([Mem EXCEPT !.heap = r.heap], [NoRet EXCEPT !.bool = r.ret],
                        [NoCall EXCEPT !.op = "==", !.this = p, !.rhs = q])

\* p != q;
CallNe(p, q) ==
    /\ Idle
    /\ LET r0 == operatorNe(Mem, p, q, Probe)
           runs == {<<u, OutOfRange(operatorNe(Mem, p, q, Vary(u)).heap)>> :
                       u \in Units(r0.heap)}
       IN  \E junk \in Values(r0.heap, runs) :
               LET r == IF junk = Probe THEN r0 ELSE operatorNe(Mem, p, q, junk)
               IN  Gets([Mem EXCEPT !.heap = r.heap], [NoRet EXCEPT !.bool = r.ret],
                        [NoCall EXCEPT !.op = "!=", !.this = p, !.rhs = q])

\* input >> p;   for a stream holding the tokens of input
CallParse(p, input) ==
    /\ Idle
    /\ LET r0 == operatorIn(Mem, p, input, Probe)
           runs == {<<u, OutOfRange(operatorIn(Mem, p, input, Vary(u)).mem.heap)>> :
                       u \in Units(r0.mem.heap)}
       IN  \E junk \in Values(r0.mem.heap, runs) :
               LET r == IF junk = Probe THEN r0 ELSE operatorIn(Mem, p, input, junk)
               IN  Gets(r.mem, [NoRet EXCEPT !.input = r.input],
                        [NoCall EXCEPT !.op = ">>", !.this = p, !.input = input])

\* output << p;   for streams that hold text
CallFormat(p, output, text) ==
    /\ Idle
    /\ LET sinks == [s \in Sinks |-> text]
           r0 == operatorOut(Mem, sinks, output, p, Probe)
           runs == {<<u, OutOfRange(operatorOut(Mem, sinks, output, p, Vary(u)).heap)>> :
                       u \in Units(r0.heap)}
       IN  \E junk \in Values(r0.heap, runs) :
               LET r == IF junk = Probe THEN r0
                        ELSE operatorOut(Mem, sinks, output, p, junk)
               IN  Gets([Mem EXCEPT !.heap = r.heap],
                        [NoRet EXCEPT !.sinks = r.sinks],
                        [NoCall EXCEPT !.op = "<<", !.this = p,
                                       !.output = output, !.sinks = sinks])

\* The end of the statement: the temporary, if the call made one, is
\* destroyed.
EndStatement ==
    /\ ~Idle
    /\ LET S1 == IF obj[Tmp].coeffList # NULL THEN Destructor(Mem, Tmp) ELSE Mem
           S2 == [S1 EXCEPT !.heap.oob = FALSE, !.heap.indet = 0]
       IN  /\ obj' = S2.obj
           /\ heap' = S2.heap
           /\ pre' = S2
    /\ ret' = NoRet
    /\ last' = NoCall

Next ==
    \/ \E p \in Names : CallCopy(p)
    \/ \E p \in Names, c \in Coefs, e \in Exps : CallSetCoeff(p, c, e)
    \/ \E p \in Names, e \in ReadExps : CallGetCoeff(p, e)
    \/ \E p, q \in Names : CallPlus(p, q)
    \/ \E p, q \in Names : CallMinus(p, q)
    \/ \E p, q \in Names : CallTimes(p, q)
    \/ \E p, q \in Names : CallAssign(p, q)
    \/ \E p, q \in Names : CallPlusAssign(p, q)
    \/ \E p, q \in Names : CallMinusAssign(p, q)
    \/ \E p, q \in Names : CallTimesAssign(p, q)
    \/ \E p, q \in Names : CallEq(p, q)
    \/ \E p, q \in Names : CallNe(p, q)
    \/ \E p \in Names, input \in Streams : CallParse(p, input)
    \/ \E p \in Names, output \in Sinks, text \in Texts : CallFormat(p, output, text)
    \/ EndStatement

Spec == Init /\ [][Next]_vars

---------------------------------------------------------------------------
(* A client program that parses longer streams into a *)

\* A stream of this program holds at most LongPairs pairs before its
\* terminating pair, and the tokens Following after it.
LongPairs == 2
Following == <<CoefMax, MaxExp>>
LongStreams == {s \o Following : s \in StreamsOf(LongPairs)}

\* The target a is prepared by setCoeff and by *= with b, then parsed into.
ParseNext ==
    \/ \E c \in Coefs, e \in Exps : CallSetCoeff("a", c, e)
    \/ CallTimesAssign("a", "b")
    \/ \E input \in LongStreams : CallParse("a", input)
    \/ EndStatement

ParseSpec == Init /\ [][ParseNext]_vars

---------------------------------------------------------------------------
(* What the properties speak of *)

\* The length of polynomial o in memory S.
Length(S, o) == S.obj[o].size

\* A value no coefficient of the range has: what a cell that does not exist
\* is taken to hold.
NoCell == CoefMax + 1

\* The coefficient of o at exponent k, zero beyond the length (and below 0).
Coefficient(S, o, k) ==
    IF k < 0 \/ k >= Length(S, o) THEN 0
    ELSE IF InBounds(S.heap, S.obj[o].coeffList, k)
    THEN S.heap.cells[S.obj[o].coeffList][k + 1]
    ELSE NoCell

Max(x, y) == IF x >= y THEN x ELSE y
Abs(x) == IF x < 0 THEN 0 - x ELSE x

\* The sum of p[i] * q[j] over i in [from, length(p)), j in [0, length(q)),
\* i + j = k.
RECURSIVE ConvolutionFrom(_, _, _, _, _)
ConvolutionFrom(S, p, q, k, from) ==
    IF from >= Length(S, p) THEN 0
    ELSE (IF k - from >= 0 /\ k - from < Length(S, q)
          THEN Coefficient(S, p, from) * Coefficient(S, q, k - from)
          ELSE 0)
         + ConvolutionFrom(S, p, q, k, from + 1)

Convolution(S, p, q, k) == ConvolutionFrom(S, p, q, k, 0)

\* The array of o and its data members.
Whole(S, o) ==
    [size |-> S.obj[o].size,
     cells |-> IF S.obj[o].coeffList = NULL THEN <<>>
               ELSE S.heap.cells[S.obj[o].coeffList]]

\* A call made in memory S that left heap h read no indeterminate int: its
\* outcome is the same whatever values such reads would yield.
Determined(S, h) == h.indet = S.heap.indet

\* Polynomials p and q of S have the same coefficient at every exponent.
SamePolynomial(S, p, q) ==
    \A k \in 0..MaxLen : Coefficient(S, p, k) = Coefficient(S, q, k)

---------------------------------------------------------------------------
(* Multiplication, addition, subtraction *)

\* C1: the product p * q has length length(p) + length(q) - 1 and its
\* coefficient at every exponent k below that length is the sum of
\* p[i] * q[j] over i + j = k.
C1_ProductIsConvolution ==
    last.op = "*" =>
        LET n == Length(pre, last.this) + Length(pre, last.rhs) - 1
        IN  /\ Length(Mem, Tmp) = n
            /\ \A k \in 0..(n - 1) :
                   Coefficient(Mem, Tmp, k) = Convolution(pre, last.this, last.rhs, k)

\* A product of two polynomials of length 2 whose middle coefficient sums
\* two non-zero products.
C1_Witness ==
    /\ last.op = "*"
    /\ Length(pre, last.this) = 2
    /\ Length(pre, last.rhs) = 2
    /\ Coefficient(pre, last.this, 0) * Coefficient(pre, last.rhs, 1) # 0
    /\ Coefficient(pre, last.this, 1) * Coefficient(pre, last.rhs, 0) # 0
    /\ Length(Mem, Tmp) = 3
    /\ Coefficient(Mem, Tmp, 2) # 0

\* C2: the sum p + q has length max(length(p), length(q)) and its
\* coefficient at every exponent i below that length is p[i] + q[i], the
\* operands zero-extended.
C2_SumIsPointwise ==
    last.op = "+" =>
        LET n == Max(Length(pre, last.this), Length(pre, last.rhs))
        IN  /\ Length(Mem, Tmp) = n
            /\ \A i \in 0..(n - 1) :
                   Coefficient(Mem, Tmp, i)
                       = Coefficient(pre, last.this, i) + Coefficient(pre, last.rhs, i)

\* Polynomial(c) + Polynomial(d, 2)-like: the left operand is the shorter
\* one, and both contribute a non-zero coefficient.
C2_Witness ==
    /\ last.op = "+"
    /\ Length(pre, last.this) < Length(pre, last.rhs)
    /\ Coefficient(pre, last.this, 0) # 0
    /\ Coefficient(pre, last.rhs, 0) # 0
    /\ Coefficient(Mem, Tmp, Length(pre, last.rhs) - 1) # 0

\* C3: the difference p - q has length max(length(p), length(q)) and its
\* coefficient at every exponent i below that length is p[i] - q[i], the
\* operands zero-extended; where q is longer than p it is -q[i] from
\* length(p) on.
C3_DifferenceIsPointwise ==
    last.op = "-" =>
        LET n == Max(Length(pre, last.this), Length(pre, last.rhs))
        IN  /\ Length(Mem, Tmp) = n
            /\ \A i \in 0..(n - 1) :
                   Coefficient(Mem, Tmp, i)
                       = Coefficient(pre, last.this, i) - Coefficient(pre, last.rhs, i)
            /\ \A i \in Length(pre, last.this)..(Length(pre, last.rhs) - 1) :
                   Coefficient(Mem, Tmp, i) = 0 - Coefficient(pre, last.rhs, i)

\* A difference whose right operand is longer by two and has non-zero
\* coefficients beyond the left operand's length.
C3_Witness ==
    /\ last.op = "-"
    /\ Length(pre, last.this) = 1
    /\ Length(pre, last.rhs) = 3
    /\ Coefficient(pre, last.rhs, 1) # 0
    /\ Coefficient(pre, last.rhs, 2) # 0
    /\ Coefficient(Mem, Tmp, 1) = 0 - Coefficient(pre, last.rhs, 1)

---------------------------------------------------------------------------
(* Compound assignment *)

\* C4: after p += q (p -= q), for every pair of lengths, p's length is
\* max(old length(p), length(q)) and p[i] is old p[i] + q[i] (old p[i] - q[i])
\* at every exponent below it, both zero-extended.
C4_CompoundSumIsPointwise ==
    last.op \in {"+=", "-="} =>
        LET n == Max(Length(pre, last.this), Length(pre, last.rhs))
            sign == IF last.op = "+=" THEN 1 ELSE 0 - 1
        IN  /\ Length(Mem, last.this) = n
            /\ \A i \in 0..(n - 1) :
                   Coefficient(Mem, last.this, i)
                       = Coefficient(pre, last.this, i)
                           + sign * Coefficient(pre, last.rhs, i)

\* C5: after p *= q every cell of p's new array holds the convolution sum of
\* old p and q at its exponent.
C5_CompoundProductIsConvolution ==
    last.op = "*=" =>
        \A k \in 0..(Len(Whole(Mem, last.this).cells) - 1) :
            Whole(Mem, last.this).cells[k + 1]
                = Convolution(pre, last.this, last.rhs, k)

\* C6: after p *= q the length of p is old length(p) + length(q) - 1.
C6_CompoundProductLength ==
    last.op = "*=" =>
        Length(Mem, last.this) = Length(pre, last.this) + Length(pre, last.rhs) - 1

---------------------------------------------------------------------------
(* setCoeff and getCoeff *)

\* C7: after setCoeff(c, e), for e of either sign: the coefficient at |e| is
\* c; the length is max(old length, |e| + 1); every other coefficient below
\* the old length is unchanged; every exponent in [old length, |e|) holds 0;
\* and a second setCoeff(c2, e) leaves the length unchanged and the
\* coefficient at |e| equal to c2.
C7_SetCoeff ==
    last.op = "setCoeff" =>
        LET p == last.this
            index == Abs(last.exp)
            old == Length(pre, p)
        IN  /\ Coefficient(Mem, p, index) = last.coeff
            /\ Length(Mem, p) = Max(old, index + 1)
            /\ \A k \in 0..(old - 1) :
                   k # index => Coefficient(Mem, p, k) = Coefficient(pre, p, k)
            /\ \A k \in old..(index - 1) : Coefficient(Mem, p, k) = 0
            /\ \A c2 \in Coefs :
                   LET S2 == setCoeff(Mem, p, c2, last.exp, Probe)
                   IN  /\ Determined(Mem, S2.heap)
                       /\ Length(S2, p) = Length(Mem, p)
                       /\ Coefficient(S2, p, index) = c2

\* setCoeff with a negative exponent that grows a polynomial of length 1 by
\* two cells.
C7_Witness ==
    /\ last.op = "setCoeff"
    /\ last.exp = 0 - 2
    /\ last.coeff # 0
    /\ Length(pre, last.this) = 1
    /\ Coefficient(pre, last.this, 0) # 0
    /\ Length(Mem, last.this) = 3
    /\ Coefficient(Mem, last.this, 1) = 0

\* C8: getCoeff(e) returns 0 for e < 0 and for e >= length(p), the stored
\* coefficient for 0 <= e < length(p), reads no cell outside the array and
\* leaves p unchanged; and after setCoeff(c, e) with e < 0 and c # 0,
\* getCoeff(e) returns 0 while getCoeff(|e|) returns c.
C8_GetCoeff ==
    /\ last.op = "getCoeff" =>
           LET p == last.this
               e == last.exp
           IN  /\ (e < 0 \/ e >= Length(pre, p)) => ret.int = 0
               /\ (0 <= e /\ e < Length(pre, p)) =>
                      /\ InBounds(pre.heap, pre.obj[p].coeffList, e)
                      /\ ret.int = pre.heap.cells[pre.obj[p].coeffList][e + 1]
               /\ obj = pre.obj
               /\ heap.cells = pre.heap.cells
    /\ (last.op = "setCoeff" /\ last.exp < 0 /\ last.coeff # 0) =>
           LET neg == getCoeff(Mem, last.this, last.exp, Probe)
               abs == getCoeff(Mem, last.this, 0 - last.exp, Probe)
           IN  /\ Determined(Mem, neg.heap) /\ neg.ret = 0
               /\ Determined(Mem, abs.heap) /\ abs.ret = last.coeff

\* getCoeff at the length of p, where p's array (after *=) has a non-zero cell
\* beyond the length.
C8_Witness ==
    /\ last.op = "getCoeff"
    /\ last.exp = Length(pre, last.this)
    /\ InBounds(pre.heap, pre.obj[last.this].coeffList, last.exp)
    /\ pre.heap.cells[pre.obj[last.this].coeffList][last.exp + 1] # 0
    /\ ret.int = 0

---------------------------------------------------------------------------
(* Equality *)

\* C9: a == b is true iff a and b have the same coefficient at every
\* exponent once zero-extended; b == a gives the same result; and a != b is
\* the negation of a == b.
C9_Equality ==
    /\ last.op = "==" =>
           /\ ret.bool = SamePolynomial(pre, last.this, last.rhs)
           /\ LET swapped == operatorEq(pre, last.rhs, last.this, Probe)
              IN  Determined(pre, swapped.heap) /\ swapped.ret = ret.bool
    /\ last.op = "!=" =>
           /\ ret.bool = ~SamePolynomial(pre, last.this, last.rhs)
           /\ LET eq == operatorEq(pre, last.this, last.rhs, Probe)
              IN  Determined(pre, eq.heap) /\ eq.ret = ~ret.bool

\* Two polynomials of different lengths that differ only in trailing zero
\* entries compare equal.
C9_Witness ==
    /\ last.op = "=="
    /\ Length(pre, last.this) > Length(pre, last.rhs)
    /\ Coefficient(pre, last.this, 0) # 0
    /\ ret.bool = TRUE

---------------------------------------------------------------------------
(* Copies *)

\* The calls that change their receiver.
Mutators == {"setCoeff", "=", "+=", "-=", "*=", ">>"}

\* C10: a copy-constructed or assigned polynomial has the length and the
\* coefficients of its source and an array of its own; no two objects ever
\* share an array, and a call leaves every object but its receiver as it
\* was, so no mutation of one object reaches another; p = p leaves p as it
\* was.
C10_CopiesAreIndependent ==
    /\ last.op = "copy" =>
           /\ Length(Mem, Tmp) = Length(pre, last.rhs)
           /\ SamePolynomial(Mem, Tmp, last.rhs)
    /\ last.op = "=" =>
           /\ Length(Mem, last.this) = Length(pre, last.rhs)
           /\ \A k \in 0..MaxLen :
                  Coefficient(Mem, last.this, k) = Coefficient(pre, last.rhs, k)
           /\ last.this = last.rhs => Whole(Mem, last.this) = Whole(pre, last.this)
    /\ \A o1, o2 \in Objs :
           (o1 # o2 /\ obj[o1].coeffList # NULL) =>
               obj[o1].coeffList # obj[o2].coeffList
    /\ \A o \in Names :
           (last.op \notin Mutators \/ o # last.this) => Whole(Mem, o) = Whole(pre, o)

\* An assignment from a shorter polynomial to a longer one, both non-zero.
C10_Witness ==
    /\ last.op = "="
    /\ last.this # last.rhs
    /\ Length(pre, last.this) = 3
    /\ Length(pre, last.rhs) = 2
    /\ Coefficient(pre, last.this, 2) # 0
    /\ Coefficient(pre, last.rhs, 1) # 0
    /\ Length(Mem, last.this) = 2
    /\ Whole(Mem, last.rhs) = Whole(pre, last.rhs)

---------------------------------------------------------------------------
(* Parsing *)

\* Pair j of stream s, counted from 1.
PairCoeff(s, j) == s[2 * j - 1]
PairExp(s, j) == s[2 * j]

\* The number of the first pair (0, 0) of s.
Terminator(s) ==
    CHOOSE j \in 1..(Len(s) \div 2) :
        /\ PairCoeff(s, j) = 0 /\ PairExp(s, j) = 0
        /\ \A i \in 1..(j - 1) : PairCoeff(s, i) # 0 \/ PairExp(s, i) # 0

\* The coefficient of the last of the first n pairs of s whose |exponent| is
\* k, 0 if there is none.
RECURSIVE LastCoeff(_, _, _)
LastCoeff(s, n, k) ==
    IF n = 0 THEN 0
    ELSE IF Abs(PairExp(s, n)) = k THEN PairCoeff(s, n)
    ELSE LastCoeff(s, n - 1, k)

\* 1 + the largest |exponent| of the first n pairs of s, 0 for n = 0.
RECURSIVE LengthAsked(_, _)
LengthAsked(s, n) ==
    IF n = 0 THEN 0
    ELSE Max(Abs(PairExp(s, n)) + 1, LengthAsked(s, n - 1))

\* C11: parsing a well-formed stream into t consumes the pairs up to and
\* including the first pair (0, 0) and no further token, and leaves t[k] the
\* coefficient of the last pair before the terminator whose |exponent| is k,
\* 0 if there is none, with length max(prior length, 1 + the largest
\* |exponent| applied).
C11_Parse ==
    last.op = ">>" =>
        LET s == last.input
            t == last.this
            n == Terminator(s) - 1
        IN  /\ ret.input = SubSeq(s, 2 * n + 3, Len(s))
            /\ \A k \in 0..MaxLen : Coefficient(Mem, t, k) = LastCoeff(s, n, k)
            /\ Length(Mem, t) = Max(Length(pre, t), LengthAsked(s, n))

\* Two pairs with the same |exponent| and different coefficients, parsed
\* into a target that held a non-zero constant term, with tokens left after
\* the terminator.
C11_Witness ==
    /\ last.op = ">>"
    /\ Terminator(last.input) = 3
    /\ PairExp(last.input, 1) = 0 - PairExp(last.input, 2)
    /\ PairExp(last.input, 1) # 0
    /\ PairCoeff(last.input, 1) # PairCoeff(last.input, 2)
    /\ PairCoeff(last.input, 2) # 0
    /\ Coefficient(pre, last.this, 0) # 0
    /\ Coefficient(Mem, last.this, 0) = 0
    /\ ret.input = Following

---------------------------------------------------------------------------
(* Formatting *)

\* The text of the term of coefficient c at exponent k.
TermText(c, k) ==
    <<" ">> \o (IF c > 0 THEN <<"+">> ELSE <<>>) \o Numeral(c)
        \o (IF k >= 1 THEN <<"x">> ELSE <<>>)
        \o (IF k >= 2 THEN <<"^">> \o Numeral(k) ELSE <<>>)

\* The terms of p for its non-zero coefficients at the exponents from k down
\* to 0.
RECURSIVE TermsFrom(_, _, _)
TermsFrom(S, p, k) ==
    IF k < 0 THEN <<>>
    ELSE (IF Coefficient(S, p, k) # 0 THEN TermText(Coefficient(S, p, k), k)
          ELSE <<>>)
         \o TermsFrom(S, p, k - 1)

\* The text of p:  " 0" when every coefficient is zero.
TextOf(S, p) ==
    IF \A k \in 0..MaxLen : Coefficient(S, p, k) = 0 THEN <<" ", "0">>
    ELSE TermsFrom(S, p, MaxLen)

\* What the call added to stream s, which still begins with what it held.
Added(s) ==
    IF Len(ret.sinks[s]) >= Len(last.sinks[s])
          /\ SubSeq(ret.sinks[s], 1, Len(last.sinks[s])) = last.sinks[s]
    THEN SubSeq(ret.sinks[s], Len(last.sinks[s]) + 1, Len(ret.sinks[s]))
    ELSE <<"?">>

\* C12: the text emitted by formatting p is one term for each exponent with
\* a non-zero coefficient, in decreasing exponent order: a space, + if the
\* coefficient is positive, its numeral, x if the exponent is >= 1, ^ and
\* the exponent if it is >= 2; it is " 0" if every coefficient is zero; and
\* p is left unchanged.
C12_Format ==
    last.op = "<<" =>
        /\ \E s \in Sinks :
               /\ Added(s) = TextOf(pre, last.this)
               /\ \A o \in Sinks \ {s} : Added(o) = <<>>
        /\ obj = pre.obj
        /\ heap.cells = pre.heap.cells

\* The text of a polynomial of length 3 with a negative x^2 term, no x term
\* and a positive constant term.
C12_Witness ==
    /\ last.op = "<<"
    /\ Length(pre, last.this) = 3
    /\ Coefficient(pre, last.this, 2) < 0
    /\ Coefficient(pre, last.this, 1) = 0
    /\ Coefficient(pre, last.this, 0) > 0
    /\ Added(Cout) = <<" ", "-", "1", "x", "^", "2", " ", "+", "1">>

\* C13: formatting writes the whole text of the polynomial to the stream
\* passed as output, after what it held, and nothing to any other stream.
C13_FormatWritesToOutput ==
    last.op = "<<" =>
        /\ ret.sinks[last.output] = last.sinks[last.output] \o TextOf(pre, last.this)
        /\ \A o \in Sinks \ {last.output} : ret.sinks[o] = last.sinks[o]

---------------------------------------------------------------------------
(* Invariants of the representation *)

\* Object o has been constructed and not destroyed.
Live(o) == obj[o].coeffList # NULL

\* C14: every live polynomial, receiver, operand or returned result, has
\* length >= 1.
C14_LengthAtLeastOne ==
    \A o \in Objs : Live(o) => Length(Mem, o) >= 1

\* The product of two polynomials of length 1, one of them left at length 1
\* by *=, is live and has length 1.
C14_Witness ==
    /\ last.op = "*"
    /\ Live(Tmp)
    /\ Length(Mem, Tmp) = 1
    /\ Len(Whole(Mem, last.this).cells) > 1

\* C15: in every operation every read or write of an array uses an index
\* within the array: no call indexes an operand's or the receiver's array at
\* or beyond its allocated length.
C15_IndicesInBounds == ~heap.oob

====
